---- MODULE Spec2Model ----
(***************************************************************************)
(* GMusicFS (src/gmusicfs/gmusicfs.py): the in-memory music library        *)
(* (MusicLibrary, Artist, Album, Playlist) and the FUSE operations of      *)
(* GMusicFS (getattr, readdir, open, read, release).                       *)
(*                                                                         *)
(* Strings are sequences of characters, a character is a one-character     *)
(* string; bytes are integers 0..255.                                      *)
(***************************************************************************)
EXTENDS Integers, Sequences, FiniteSets, TLC

VARIABLES
    lowercase,       \* GMusicFS(lowercase=...): self.transform lower-cases names
    true_file_size,  \* MusicLibrary.true_file_size
    feed,            \* what the remote service returns for the account
    artists,         \* MusicLibrary.__artists : key -> Artist
    tracksById,      \* MusicLibrary.__tracks  : track id -> track
    playlists,       \* MusicLibrary.__playlists : key -> Playlist
    scan,            \* position of a running rescan() and its local variables
    open_files,      \* GMusicFS.__open_files : fh -> stream object
    streams,         \* the urllib2 response objects created so far
    last,            \* the last call made, its arguments and its outcome
    live             \* history: the handles opened with success and not
                     \* released since, as the caller saw the calls end

vars == <<lowercase, true_file_size, feed, artists, tracksById, playlists,
          scan, open_files, streams, last, live>>

-----------------------------------------------------------------------------
(* Characters and Python's string methods *)

UpperChars == <<"A","B","C","D","E","F","G","H","I","J","K","L","M",
                "N","O","P","Q","R","S","T","U","V","W","X","Y","Z">>
LowerChars == <<"a","b","c","d","e","f","g","h","i","j","k","l","m",
                "n","o","p","q","r","s","t","u","v","w","x","y","z">>
DigitChars == <<"0","1","2","3","4","5","6","7","8","9">>

\* A character outside ASCII (LATIN SMALL LETTER E WITH ACUTE); it has no
\* upper case in the data used here.
EAcute == "U+00E9"

IsUpper(c) == \E i \in 1..26 : UpperChars[i] = c
IsLowerCh(c) == \E i \in 1..26 : LowerChars[i] = c
IsDigit(c) == \E i \in 1..10 : DigitChars[i] = c
IsSpace(c) == c = " "

LowerChar(c) ==
    IF IsUpper(c) THEN LowerChars[CHOOSE i \in 1..26 : UpperChars[i] = c] ELSE c

\* ord(c)
Ord(c) ==
    IF IsUpper(c) THEN 64 + (CHOOSE i \in 1..26 : UpperChars[i] = c)
    ELSE IF IsLowerCh(c) THEN 96 + (CHOOSE i \in 1..26 : LowerChars[i] = c)
    ELSE IF IsDigit(c) THEN 47 + (CHOOSE i \in 1..10 : DigitChars[i] = c)
    ELSE IF c = " " THEN 32
    ELSE IF c = "-" THEN 45
    ELSE IF c = "." THEN 46
    ELSE IF c = "/" THEN 47
    ELSE 233

\* s.lower()
lower(s) == [i \in 1..Len(s) |-> LowerChar(s[i])]

\* s.strip()
strip(s) ==
    IF \A i \in 1..Len(s) : IsSpace(s[i]) THEN <<>>
    ELSE LET a == CHOOSE i \in 1..Len(s) :
                      ~IsSpace(s[i]) /\ \A j \in 1..(i-1) : IsSpace(s[j])
             b == CHOOSE i \in 1..Len(s) :
                      ~IsSpace(s[i]) /\ \A j \in (i+1)..Len(s) : IsSpace(s[j])
         IN  SubSeq(s, a, b)

\* formatNames: re.sub('/', '-', string_from)
formatNames(string_from) ==
    [i \in 1..Len(string_from) |->
        IF string_from[i] = "/" THEN "-" ELSE string_from[i]]

RECURSIVE Dec(_)
\* the decimal digits of a natural number
Dec(n) ==
    IF n < 10 THEN <<DigitChars[n + 1]>>
    ELSE Dec(n \div 10) \o <<DigitChars[(n % 10) + 1]>>

\* '%03d' % n and '{:04d}'.format(n) for n >= 0
ZeroPad(n, width) ==
    LET d == Dec(n)
    IN  IF Len(d) >= width THEN d
        ELSE [i \in 1..(width - Len(d)) |-> "0"] \o d

EndsWith(s, p) == Len(s) >= Len(p) /\ SubSeq(s, Len(s) - Len(p) + 1, Len(s)) = p

DotMp3 == <<".", "m", "p", "3">>
DotJpg == <<".", "j", "p", "g">>
SpDashSp == <<" ", "-", " ">>

\* every enumeration of a finite set: the orders in which a Python 2 dict may
\* hand out its keys (the order is arbitrary, not the insertion order)
RECURSIVE Perms(_)
Perms(S) ==
    IF S = {} THEN {<<>>}
    ELSE UNION {{<<x>> \o p : p \in Perms(S \ {x})} : x \in S}

EmptyDict == [k \in {} |-> {}]

-----------------------------------------------------------------------------
(* The catalog feed: what api.get_all_songs() and                          *)
(* api.get_all_user_playlist_contents() return.  A track is the dict of    *)
(* one song: the keys the program reads.  year 0 stands for a song without *)
(* year (get_year treats a missing and a zero year alike); art 0 stands    *)
(* for a song without albumArtRef.                                         *)

Track(id, title, artist, albumArtist, album, trackNumber, year, art, comment) ==
    [id |-> id, title |-> title, artist |-> artist, albumArtist |-> albumArtist,
     album |-> album, trackNumber |-> trackNumber, year |-> year,
     estimatedSize |-> 1000 + id, art |-> art, comment |-> comment]

\* Python's None where a track is expected
NoneTrack == Track(0, <<>>, <<>>, <<>>, <<>>, 0, 0, 0, <<>>)

\* a playlist entry: either it embeds the track ('track' in entry) or it
\* carries only the trackId
EntryById(id) == [trackId |-> id, hasTrack |-> FALSE, track |-> NoneTrack]
EntryInline(id, t) == [trackId |-> id, hasTrack |-> TRUE, track |-> t]

-----------------------------------------------------------------------------
(* MusicLibrary.__aggregate_albums, one song at a time *)

Unknown == <<"U","n","k","n","o","w","n">>

\* a variant of ArtistName: the track artist is preferred
ArtistName_ArtistFirst(track) ==
    LET a1 == formatNames(track.artist)
        a2 == IF strip(a1) = <<>> THEN formatNames(track.albumArtist) ELSE a1
    IN  IF strip(a2) = <<>> THEN Unknown ELSE a2

\* lines 274-278: prefer the album artist over the track artist
ArtistName(track) ==
    LET a1 == formatNames(track.albumArtist)
        a2 == IF strip(a1) = <<>> THEN formatNames(track.artist) ELSE a1
    IN  IF strip(a2) = <<>> THEN Unknown ELSE a2

\* Artist.__init__
NewArtist(name) ==
    [realname |-> name, dirname |-> formatNames(name), albums |-> EmptyDict]

\* Album.__init__ ; Album.__tracks starts empty
NewAlbum(title) ==
    [realtitle |-> title, normtitle |-> formatNames(title), tracks |-> <<>>]

\* Artist.get_album(title): the key looked up
AlbumKey(title) == lower(title)

\* MusicLibrary.get_artist(name): the key looked up
ArtistKey(name) == lower(name)

\* the body of the loop over the songs (lines 270-294), on the artists dict
AddTrack(arts, track) ==
    LET name   == ArtistName(track)
        akey   == ArtistKey(name)
        artist == IF akey \in DOMAIN arts THEN arts[akey] ELSE NewArtist(name)
        bkey   == AlbumKey(formatNames(track.album))
        found  == bkey \in DOMAIN artist.albums
        album  == IF found THEN artist.albums[bkey] ELSE NewAlbum(track.album)
        \* Artist.add_album files a new album under normtitle.lower()
        addkey == IF found THEN bkey ELSE lower(album.normtitle)
        album2 == [album EXCEPT !.tracks = Append(@, track)]
    IN  (akey :> [artist EXCEPT !.albums = (addkey :> album2) @@ @]) @@ arts

\* lines 297-298: the track id map
AddTrackId(byId, track) == (track.id :> track) @@ byId

\* MusicLibrary.get_track(trackid)
get_track(byId, trackid) ==
    IF trackid \in DOMAIN byId THEN byId[trackid] ELSE NoneTrack

\* Playlist.__init__
NewPlaylist(byId, pldata) ==
    [realname |-> pldata.name,
     dirname  |-> strip(formatNames(pldata.name)),
     tracks   |-> [i \in 1..Len(pldata.tracks) |->
                     LET entry == pldata.tracks[i]
                     IN  IF entry.hasTrack
                         THEN [entry.track EXCEPT !.id = entry.trackId]
                         ELSE get_track(byId, entry.trackId)]]

\* lines 306-308
AddPlaylist(pls, byId, pldata) ==
    LET playlist == NewPlaylist(byId, pldata)
    IN  (lower(playlist.dirname) :> playlist) @@ pls

RECURSIVE AggregateSongs(_, _, _)
AggregateSongs(arts, songs, i) ==
    IF i > Len(songs) THEN arts
    ELSE AggregateSongs(AddTrack(arts, songs[i]), songs, i + 1)

RECURSIVE AggregateIds(_, _, _)
AggregateIds(byId, songs, i) ==
    IF i > Len(songs) THEN byId
    ELSE AggregateIds(AddTrackId(byId, songs[i]), songs, i + 1)

RECURSIVE AggregatePlaylists(_, _, _, _)
AggregatePlaylists(pls, byId, pl, i) ==
    IF i > Len(pl) THEN pls
    ELSE AggregatePlaylists(AddPlaylist(pls, byId, pl[i]), byId, pl, i + 1)

\* the library a completed rescan() leaves behind for a feed
Library(f) ==
    LET byId == AggregateIds(EmptyDict, f.songs, 1)
    IN  [artists    |-> AggregateSongs(EmptyDict, f.songs, 1),
         tracksById |-> byId,
         playlists  |-> AggregatePlaylists(EmptyDict, byId, f.playlists, 1)]

EmptyLibrary ==
    [artists |-> EmptyDict, tracksById |-> EmptyDict, playlists |-> EmptyDict]

-----------------------------------------------------------------------------
(* The path grammar: the six regular expressions of GMusicFS.__init__      *)
(* (lines 341-350).  A path is split at '/'; [^/]+ is a non-empty segment. *)

sArtists == <<"a","r","t","i","s","t","s">>
sPlaylists == <<"p","l","a","y","l","i","s","t","s">>
sCoverJpg == <<"c","o","v","e","r",".","j","p","g">>
Slash == <<"/">>

RECURSIVE SplitFrom(_, _, _)
SplitFrom(s, i, cur) ==
    IF i > Len(s) THEN <<cur>>
    ELSE IF s[i] = "/" THEN <<cur>> \o SplitFrom(s, i + 1, <<>>)
    ELSE SplitFrom(s, i + 1, Append(cur, s[i]))

\* the segments after the leading '/'; a path without it matches no pattern
Segs(path) ==
    IF Len(path) >= 1 /\ path[1] = "/" THEN SplitFrom(path, 2, <<>>) ELSE <<>>

\* (?P<year>[0-9]{4}) - (?P<album>[^/]+)
IsYearAlbum(seg) ==
    /\ Len(seg) >= 8
    /\ \A i \in 1..4 : IsDigit(seg[i])
    /\ SubSeq(seg, 5, 7) = SpDashSp

YearAlbumName(seg) == SubSeq(seg, 8, Len(seg))

\* [^/]+\.mp3  and  [^/]+\.jpg
IsFileSeg(seg, ext) == Len(seg) >= Len(ext) + 1 /\ EndsWith(seg, ext)

MatchShape(path) ==
    LET g == Segs(path)
    IN  IF path = Slash THEN "root"
        ELSE IF path = Slash \o sArtists THEN "artists"
        ELSE IF path = Slash \o sPlaylists THEN "playlists"
        ELSE IF Len(g) = 2 /\ g[1] = sArtists /\ g[2] # <<>> THEN "artist_dir"
        ELSE IF Len(g) = 3 /\ g[1] = sArtists /\ g[2] # <<>> /\ IsYearAlbum(g[3])
             THEN "artist_album_dir"
        ELSE IF Len(g) = 4 /\ g[1] = sArtists /\ g[2] # <<>> /\ IsYearAlbum(g[3])
                /\ IsFileSeg(g[4], DotMp3)
             THEN "artist_album_track"
        ELSE IF Len(g) = 4 /\ g[1] = sArtists /\ g[2] # <<>> /\ IsYearAlbum(g[3])
                /\ IsFileSeg(g[4], DotJpg)
             THEN "artist_album_image"
        ELSE IF Len(g) = 2 /\ g[1] = sPlaylists /\ g[2] # <<>> THEN "playlist_dir"
        ELSE IF Len(g) = 3 /\ g[1] = sPlaylists /\ g[2] # <<>>
                /\ IsFileSeg(g[3], DotMp3)
             THEN "playlist_track"
        ELSE "none"

\* m.groupdict() of the pattern that matched (lines 409, 415, 427, ...)
MatchParts(path) ==
    LET g == Segs(path)
        sh == MatchShape(path)
    IN  [artist   |-> IF g # <<>> /\ g[1] = sArtists /\ Len(g) >= 2 THEN g[2] ELSE <<>>,
         album    |-> IF sh \in {"artist_album_dir", "artist_album_track",
                                 "artist_album_image"}
                      THEN YearAlbumName(g[3]) ELSE <<>>,
         track    |-> IF sh = "artist_album_track" THEN g[4]
                      ELSE IF sh = "playlist_track" THEN g[3] ELSE <<>>,
         playlist |-> IF sh \in {"playlist_dir", "playlist_track"} THEN g[2] ELSE <<>>]

-----------------------------------------------------------------------------
(* The account the file system is mounted on, and the calls made to it *)

sSong == <<"S","o","n","g">>
sSongLower == <<"s","o","n","g">>
sBand == <<"B","a","n","d">>
sLP == <<"L","P">>
sCafe == <<"C","a","f",EAcute>>
sSolo == <<"S","o","l","o">>
sDemo == <<"D","e","m","o">>
sMix == <<"M","i","x">>
sHi == <<"H","i">>
sNobody == <<"n","o","b","o","d","y">>

\* two songs of one album that arrive out of track order and whose titles
\* differ only by case, a song whose title is not ASCII and that has an album
\* artist, and a playlist
MainSong == Track(1, sSong, sBand, <<>>, sLP, 2, 2000, 1, <<>>)

MainFeed ==
    [songs |-> << MainSong,
                  Track(2, sSongLower, sBand, <<>>, sLP, 1, 2001, 0, sHi),
                  Track(3, sCafe, sBand, sSolo, sDemo, 9, 0, 0, <<>>) >>,
     playlists |-> << [name |-> sMix, tracks |-> <<EntryById(3), EntryInline(1, MainSong)>>] >>]

\* joins path segments: '/' before each
RECURSIVE PathOf(_)
PathOf(segs) ==
    IF segs = <<>> THEN <<>>
    ELSE Slash \o segs[1] \o PathOf(SubSeq(segs, 2, Len(segs)))

Fold(lc, x) == IF lc THEN lower(x) ELSE x

\* the names the listings of MainFeed's library give, with (lc) and without
\* lower-casing
dBand(lc) == Fold(lc, sBand)
dSolo(lc) == Fold(lc, sSolo)
dLP(lc, year) == ZeroPad(year, 4) \o SpDashSp \o Fold(lc, sLP)
dDemo(lc) == ZeroPad(0, 4) \o SpDashSp \o Fold(lc, sDemo)
dMix(lc) == Fold(lc, sMix)
fSong1(lc) == ZeroPad(2, 3) \o SpDashSp \o Fold(lc, sSong) \o DotMp3
fSong2(lc) == ZeroPad(1, 3) \o SpDashSp \o sSongLower \o DotMp3
fCafe(lc) == ZeroPad(9, 3) \o SpDashSp \o Fold(lc, sCafe) \o DotMp3
fMix1(lc) ==
    Fold(lc, ZeroPad(1, 3) \o SpDashSp \o sBand \o SpDashSp \o sDemo
                 \o SpDashSp \o sCafe \o DotMp3)
fMix2(lc) ==
    Fold(lc, ZeroPad(2, 3) \o SpDashSp \o sBand \o SpDashSp \o sLP
                 \o SpDashSp \o sSong \o DotMp3)

pSong1(lc) == PathOf(<<sArtists, dBand(lc), dLP(lc, 2000), fSong1(lc)>>)
pSong2(lc) == PathOf(<<sArtists, dBand(lc), dLP(lc, 2000), fSong2(lc)>>)
pCover(lc) == PathOf(<<sArtists, dBand(lc), dLP(lc, 2000), sCoverJpg>>)
pCafe(lc) == PathOf(<<sArtists, dSolo(lc), dDemo(lc), fCafe(lc)>>)
pMix1(lc) == PathOf(<<sPlaylists, dMix(lc), fMix1(lc)>>)
pMix2(lc) == PathOf(<<sPlaylists, dMix(lc), fMix2(lc)>>)

ListedDirs(lc) ==
    {Slash, PathOf(<<sArtists>>), PathOf(<<sPlaylists>>),
     PathOf(<<sArtists, dBand(lc)>>), PathOf(<<sArtists, dSolo(lc)>>),
     PathOf(<<sArtists, dBand(lc), dLP(lc, 2000)>>),
     PathOf(<<sArtists, dBand(lc), dLP(lc, 2001)>>),
     PathOf(<<sArtists, dSolo(lc), dDemo(lc)>>),
     PathOf(<<sPlaylists, dMix(lc)>>)}

ListedFiles(lc) ==
    {pSong1(lc), pSong2(lc), pCover(lc), pCafe(lc), pMix1(lc), pMix2(lc)}

\* paths that no listing gives
pNoArtist == PathOf(<<sArtists, sNobody>>)
pNoAlbum == PathOf(<<sArtists, dBand(TRUE), ZeroPad(2000, 4) \o SpDashSp \o sNobody>>)
pNoTrack ==
    PathOf(<<sArtists, dBand(TRUE), dLP(TRUE, 2000),
             ZeroPad(3, 3) \o SpDashSp \o sNobody \o DotMp3>>)
pNoArtistTrack ==
    PathOf(<<sArtists, sNobody, dLP(TRUE, 2000), fSong2(TRUE)>>)
pNoAlbumTrack ==
    PathOf(<<sArtists, dBand(TRUE), ZeroPad(2000, 4) \o SpDashSp \o sNobody,
             fSong2(TRUE)>>)
pNoCover == PathOf(<<sArtists, dSolo(TRUE), dDemo(TRUE), sCoverJpg>>)
pNoPlaylist == PathOf(<<sPlaylists, sNobody>>)
pNoPlaylistTrack == PathOf(<<sPlaylists, sNobody, fSong2(TRUE)>>)
pNoPlaylistEntry == PathOf(<<sPlaylists, dMix(TRUE), sNobody \o DotMp3>>)
pNoShape == PathOf(<<sNobody>>)
pNoYear == PathOf(<<sArtists, dBand(TRUE), Fold(TRUE, sLP)>>)

UnlistedPaths ==
    {pNoArtist, pNoAlbum, pNoTrack, pNoArtistTrack, pNoAlbumTrack, pNoCover,
     pNoPlaylist, pNoPlaylistTrack, pNoPlaylistEntry, pNoShape, pNoYear}

\* the paths the bridge passes in to getattr, readdir and open
Paths ==
    ListedDirs(TRUE) \cup ListedDirs(FALSE) \cup ListedFiles(TRUE)
        \cup ListedFiles(FALSE) \cup UnlistedPaths

\* the paths of the streaming sessions: a track, a track whose title is not
\* ASCII, a cover image, a playlist track and a track that does not exist
StreamPaths == {pSong1(TRUE), pCafe(TRUE), pCover(TRUE), pMix2(TRUE), pNoTrack}

\* the patterns are matched once for each path used
ShapeCache == [p \in Paths \cup StreamPaths |-> MatchShape(p)]
PartsCache == [p \in Paths \cup StreamPaths |-> MatchParts(p)]

\* which pattern of getattr's, readdir's, open's and read's if/elif chain
\* the path matches
Shape(path) ==
    IF path \in DOMAIN ShapeCache THEN ShapeCache[path] ELSE MatchShape(path)

Parts(path) ==
    IF path \in DOMAIN PartsCache THEN PartsCache[path] ELSE MatchParts(path)

-----------------------------------------------------------------------------
\* self.transform
transform(x) == IF lowercase THEN lower(x) ELSE x

-----------------------------------------------------------------------------
(* Album and Playlist methods *)

\* the length of the run of digits s starts with
RECURSIVE DigitRun(_, _)
DigitRun(s, i) ==
    IF i <= Len(s) /\ IsDigit(s[i]) THEN DigitRun(s, i + 1) ELSE i - 1

\* Album.__filename_re  "^[0-9]+ - (.*)\.mp3$"
AlbumFilenameMatches(filename) ==
    LET k == DigitRun(filename, 1)
    IN  /\ k >= 1
        /\ Len(filename) >= k + 3 + 4
        /\ SubSeq(filename, k + 1, k + 3) = SpDashSp
        /\ EndsWith(filename, DotMp3)

\* m.groups()[0] of Album.__filename_re
AlbumFilenameTitle(filename) ==
    SubSeq(filename, DigitRun(filename, 1) + 4, Len(filename) - 4)

\* Playlist.__filename_re  '^([0-9]+) - [^/]+\.mp3$'
PlaylistFilenameMatches(filename) ==
    LET k == DigitRun(filename, 1)
    IN  /\ k >= 1
        /\ Len(filename) >= k + 3 + 1 + 4
        /\ SubSeq(filename, k + 1, k + 3) = SpDashSp
        /\ EndsWith(filename, DotMp3)
        /\ \A i \in 1..Len(filename) : filename[i] # "/"

\* the sort key of Album.get_tracks: t.get('track').  The song dicts carry
\* their number under 'trackNumber'; they have no key 'track', so the key is
\* None for every track.
TrackSortKey(t) == 0

RECURSIVE InsertByKey(_, _)
\* insert t after every element whose key is <= its own (a stable sort step)
InsertByKey(sorted, t) ==
    IF sorted = <<>> THEN <<t>>
    ELSE IF TrackSortKey(sorted[Len(sorted)]) <= TrackSortKey(t)
         THEN Append(sorted, t)
         ELSE Append(InsertByKey(SubSeq(sorted, 1, Len(sorted) - 1), t),
                     sorted[Len(sorted)])

RECURSIVE SortTracks(_, _)
SortTracks(ts, i) ==
    IF i = 0 THEN <<>> ELSE InsertByKey(SortTracks(ts, i - 1), ts[i])

\* Album.get_tracks(): list.sort by the key above (a stable sort)
get_tracks(album) == SortTracks(album.tracks, Len(album.tracks))

\* Album.get_track(filename), lines 149-158: the index in get_tracks() of the
\* first track whose title matches, 0 for None
AlbumTrackIndex(album, filename) ==
    LET ts == get_tracks(album)
        title == AlbumFilenameTitle(filename)
        hits == {i \in 1..Len(ts) :
                    formatNames(lower(ts[i].title)) = lower(title)}
    IN  IF AlbumFilenameMatches(filename) /\ hits # {}
        THEN CHOOSE i \in hits : \A j \in hits : i <= j
        ELSE 0

Album_get_track(album, filename) ==
    LET i == AlbumTrackIndex(album, filename)
    IN  IF i = 0 THEN NoneTrack ELSE get_tracks(album)[i]

\* Album.get_cover_url(): the first track's albumArtRef url, None (0) without
CoverUrl(album) ==
    IF album.tracks # <<>> /\ album.tracks[1].art # 0
    THEN [kind |-> "art", n |-> album.tracks[1].art]
    ELSE [kind |-> "none", n |-> 0]

\* api.get_stream_url(track['id'], deviceId)
StreamUrl(track) == [kind |-> "stream", n |-> track.id]

\* the Content-Length the remote server declares for a URL
ContentLength(url) ==
    IF url.kind = "stream" THEN url.n + 1 ELSE 2

-----------------------------------------------------------------------------
(* Album.get_year, lines 182-198 *)

\* the years dict: year -> count, over the tracks that have a year
YearCounts(album) ==
    LET ts == get_tracks(album)
        ys == {ts[i].year : i \in 1..Len(ts)} \ {0}
    IN  [y \in ys |-> Cardinality({i \in 1..Len(ts) : ts[i].year = y})]

\* a variant of InsertByCount: the sort is not reversed
RECURSIVE InsertByCount_Ascending(_, _, _)
InsertByCount_Ascending(sorted, y, count) ==
    IF sorted = <<>> THEN <<y>>
    ELSE IF count[sorted[Len(sorted)]] <= count[y]
         THEN Append(sorted, y)
         ELSE Append(InsertByCount_Ascending(SubSeq(sorted, 1, Len(sorted) - 1), y, count),
                     sorted[Len(sorted)])

RECURSIVE InsertByCount(_, _, _)
\* a step of sorted(..., key=itemgetter(1), reverse=True): y goes after every
\* item whose count is >= its own, so equal counts keep their order
InsertByCount(sorted, y, count) ==
    IF sorted = <<>> THEN <<y>>
    ELSE IF count[sorted[Len(sorted)]] >= count[y]
         THEN Append(sorted, y)
         ELSE Append(InsertByCount(SubSeq(sorted, 1, Len(sorted) - 1), y, count),
                     sorted[Len(sorted)])

RECURSIVE SortYears(_, _, _)
SortYears(items, i, count) ==
    IF i = 0 THEN <<>>
    ELSE InsertByCount(SortYears(items, i - 1, count), items[i], count)

\* get_year when years.items() hands the years out in the order `items`
YearFor(album, items) ==
    LET top_years == SortYears(items, Len(items), YearCounts(album))
    IN  IF top_years = <<>> THEN 0 ELSE top_years[1]

\* the results get_year can give: a Python 2 dict lists its items in an
\* arbitrary order
YearOutcomes(album) ==
    {YearFor(album, items) : items \in Perms(DOMAIN YearCounts(album))}

-----------------------------------------------------------------------------
(* Outcomes of a call: what it returns, or the exception it raises *)

Res(kind, val) == [kind |-> kind, err |-> "", val |-> val]
Err(e) == [kind |-> "error", err |-> e, val |-> <<>>]

\* the call recorded in `last`; u and pos0 are the stream a read used and
\* that stream's position before the read (0 when no stream was used)
Call(op, path, fh, size, offset, res, u, pos0) ==
    [op |-> op, path |-> path, fh |-> fh, size |-> size, offset |-> offset,
     res |-> res, u |-> u, pos0 |-> pos0]

NoCall == Call("none", <<>>, 0, 0, 0, Res("none", <<>>), 0, 0)

\* lines 392-396: the default, a directory
DirStat == [st_mode |-> "S_IFDIR|0755", st_nlink |-> 2, st_size |-> 0]

FileStat(size) == [st_mode |-> "S_IFREG|0444", st_nlink |-> 0, st_size |-> size]

\* the placeholder size of a cover image, line 420
COVER_PLACEHOLDER_SIZE == 10000000

\* Playlist.get_track, lines 79-85: on a match line 84 subtracts 1 from the
\* string m.groups()[0], which raises TypeError; without a match it is None
Playlist_get_track(playlist, filename) ==
    IF PlaylistFilenameMatches(filename) THEN Err("TypeError")
    ELSE Res("track", NoneTrack)

\* GMusicFS.track_to_stat, lines 368-380: line 373 reads the name t, which
\* is bound nowhere, after line 372 has subscripted track
track_to_stat(track) ==
    IF track = NoneTrack THEN Err("TypeError") ELSE Err("NameError")

\* Album.get_cover_size, lines 173-180, as the outcomes of the HEAD request
CoverSizeOutcomes(album) ==
    IF true_file_size
    THEN IF CoverUrl(album).kind = "none" THEN {Err("AttributeError")}
         ELSE {Res("size", ContentLength(CoverUrl(album))), Err("URLError")}
    ELSE {Res("size", COVER_PLACEHOLDER_SIZE)}

HasArtist(name) == ArtistKey(name) \in DOMAIN artists
HasAlbum(artist, title) == AlbumKey(title) \in DOMAIN artist.albums
HasPlaylist(name) == lower(name) \in DOMAIN playlists

\* album = artist.get_album(parts['album']) and the first use of album: a
\* method call on None raises AttributeError
AlbumOf(artist, title) ==
    IF HasAlbum(artist, title) THEN Res("album", artist.albums[AlbumKey(title)])
    ELSE Err("AttributeError")

\* artist = self.library.get_artist(parts['artist']) followed by the lookup
\* of the album (lines 410-411, 416-417, 445-446, 451-452, 480-481, 525-526)
ResolveAlbum(parts) ==
    IF HasArtist(parts.artist)
    THEN AlbumOf(artists[ArtistKey(parts.artist)], parts.album)
    ELSE Err("AttributeError")

\* playlist = self.library.get_playlist(parts['playlist']) and its first use
ResolvePlaylist(parts) ==
    IF HasPlaylist(parts.playlist) THEN Res("playlist", playlists[lower(parts.playlist)])
    ELSE Err("AttributeError")

\* lines 412-413
GetattrTrack(a, filename) ==
    IF a.kind = "error" THEN a ELSE track_to_stat(Album_get_track(a.val, filename))

\* lines 419-423
CoverStat(r) == IF r.kind = "size" THEN Res("stat", FileStat(r.val)) ELSE r

\* lines 418-423
GetattrImage(a) ==
    IF a.kind = "error" THEN {a} ELSE {CoverStat(r) : r \in CoverSizeOutcomes(a.val)}

\* line 430
PlaylistStat(got) == IF got.kind = "error" THEN got ELSE track_to_stat(got.val)

\* lines 428-430
GetattrPlaylistTrack(pl, filename) ==
    IF pl.kind = "error" THEN pl ELSE PlaylistStat(Playlist_get_track(pl.val, filename))

\* the if/elif chain of getattr, lines 398-432
GetattrFor(sh, parts) ==
    IF sh \in {"root", "artists", "playlists", "artist_dir",
               "artist_album_dir", "playlist_dir"}
    THEN {Res("stat", DirStat)}
    ELSE IF sh = "artist_album_track"
    THEN {GetattrTrack(ResolveAlbum(parts), parts.track)}
    ELSE IF sh = "artist_album_image" THEN GetattrImage(ResolveAlbum(parts))
    ELSE IF sh = "playlist_track"
    THEN {GetattrPlaylistTrack(ResolvePlaylist(parts), parts.track)}
    ELSE {Err("ENOENT")}

\* GMusicFS.getattr, lines 382-434
GetattrOutcomes(path) == GetattrFor(Shape(path), Parts(path))

DotDots == << <<".">>, <<".", ".">> >>

\* '%03d - %s.mp3' % (track['trackNumber'], transform(formatNames(title)))
AlbumTrackFilename(track) ==
    ZeroPad(track.trackNumber, 3) \o SpDashSp
        \o transform(formatNames(track.title)) \o DotMp3

\* transform(formatNames('%03d - %s - %s - %s.mp3' % (tracknum, artist, album, title)))
PlaylistTrackFilename(tracknum, track) ==
    transform(formatNames(ZeroPad(tracknum, 3) \o SpDashSp \o track.artist
        \o SpDashSp \o track.album \o SpDashSp \o track.title \o DotMp3))

\* u'{year:04d} - {name}'
AlbumDirName(album, year) ==
    ZeroPad(year, 4) \o SpDashSp \o transform(album.normtitle)

\* Album.get_tracks(get_size=True), lines 140-146: with true sizes wanted,
\* every track without 'bytes' is probed at get_track_stream(t)[0], the
\* first character of the URL string, and urlopen refuses it
AlbumProbeFails(album) == true_file_size /\ album.tracks # <<>>

\* the years the albums of an artist may be listed under
YearChoices(albums) ==
    {yr \in [DOMAIN albums -> UNION {YearOutcomes(albums[k]) : k \in DOMAIN albums}] :
        \A k \in DOMAIN albums : yr[k] \in YearOutcomes(albums[k])}

\* lines 508-509 and 511-512
DirnameListings(dict) ==
    {Res("list", DotDots \o [i \in 1..Len(order) |-> transform(dict[order[i]].dirname)]) :
        order \in Perms(DOMAIN dict)}

\* lines 517-521
AlbumDirListings(albums) ==
    {Res("list", DotDots \o [i \in 1..Len(order) |->
                               AlbumDirName(albums[order[i]], yr[order[i]])]) :
        order \in Perms(DOMAIN albums), yr \in YearChoices(albums)}

ReaddirArtist(parts) ==
    IF HasArtist(parts.artist)
    THEN AlbumDirListings(artists[ArtistKey(parts.artist)].albums)
    ELSE {Err("AttributeError")}

\* lines 527-535
TrackListing(album, ts) ==
    IF AlbumProbeFails(album) THEN Err("ValueError")
    ELSE Res("list", DotDots \o [i \in 1..Len(ts) |-> AlbumTrackFilename(ts[i])]
                     \o (IF CoverUrl(album).kind # "none" THEN <<sCoverJpg>> ELSE <<>>))

ReaddirAlbum(a) ==
    IF a.kind = "error" THEN a ELSE TrackListing(a.val, get_tracks(a.val))

\* lines 539-544; line 542 subscripts the track
PlaylistListing(ts) ==
    IF \E i \in 1..Len(ts) : ts[i] = NoneTrack THEN Err("TypeError")
    ELSE Res("list", DotDots \o [i \in 1..Len(ts) |-> PlaylistTrackFilename(i, ts[i])])

ReaddirPlaylist(pl) ==
    IF pl.kind = "error" THEN pl ELSE PlaylistListing(pl.val.tracks)

\* the if/elif chain of readdir, lines 505-544
ReaddirFor(sh, parts) ==
    IF sh = "root" THEN {Res("list", DotDots \o <<sArtists, sPlaylists>>)}
    ELSE IF sh = "artists" THEN DirnameListings(artists)
    ELSE IF sh = "playlists" THEN DirnameListings(playlists)
    ELSE IF sh = "artist_dir" THEN ReaddirArtist(parts)
    ELSE IF sh = "artist_album_dir" THEN {ReaddirAlbum(ResolveAlbum(parts))}
    ELSE IF sh = "playlist_dir" THEN {ReaddirPlaylist(ResolvePlaylist(parts))}
    \* no branch is taken: the function ends and returns None
    ELSE {Res("none", <<>>)}

\* GMusicFS.readdir, lines 498-544
ReaddirOutcomes(path) == ReaddirFor(Shape(path), Parts(path))

\* album.get_track_stream(track), line 448, and line 458: both subscript
\* the track
TrackUrl(track) ==
    IF track = NoneTrack THEN Err("TypeError") ELSE Res("url", StreamUrl(track))

\* lines 447-448
OpenTrack(a, filename) ==
    IF a.kind = "error" THEN a ELSE TrackUrl(Album_get_track(a.val, filename))

\* line 453
OpenImage(a) == IF a.kind = "error" THEN a ELSE Res("url", CoverUrl(a.val))

OpenPlaylistEntry(got) == IF got.kind = "error" THEN got ELSE TrackUrl(got.val)

\* lines 457-458
OpenPlaylistTrack(pl, filename) ==
    IF pl.kind = "error" THEN pl
    ELSE OpenPlaylistEntry(Playlist_get_track(pl.val, filename))

\* the if/elif chain of open, lines 443-460
OpenUrlFor(sh, parts) ==
    IF sh = "artist_album_track" THEN OpenTrack(ResolveAlbum(parts), parts.track)
    ELSE IF sh = "artist_album_image" THEN OpenImage(ResolveAlbum(parts))
    ELSE IF sh = "playlist_track"
    THEN OpenPlaylistTrack(ResolvePlaylist(parts), parts.track)
    \* line 460 builds a RuntimeError without raising it; line 462 then
    \* reads the unbound local url
    ELSE Err("UnboundLocalError")

\* GMusicFS.open, lines 439-460: the url handed to urlopen, or the exception
OpenUrl(path) == OpenUrlFor(Shape(path), Parts(path))

-----------------------------------------------------------------------------
(* The remote streams and the ID3v1 trailer *)

\* Size of the ID3v1 trailer appended to the mp3 file (line 34)
ID3V1_TRAILER_SIZE == 128

\* the field widths of struct.pack("!3s30s30s30s4s30sb", ...), line 484
ID3_FIELD == 30
ID3_YEAR_FIELD == 4
\* the genre written, "Other" (line 485)
ID3_GENRE == 12

\* the byte the server sends at position i (from 0) of a URL's content;
\* audio and image bytes are taken >= 128 here, text and padding are below
ContentByte(url, i) == 128 + ((7 * url.n + i) % 128)

\* urlopen(url): the response object; u.bytes_read = 0 (line 463).  reads
\* counts the reads made of it.
NewStream(url) ==
    [url |-> url, length |-> ContentLength(url), pos |-> 0, closed |-> FALSE,
     bytes_read |-> 0, reads |-> 0]

\* how many bytes u.read(n) returns: up to n, everything left when n < 0
ReadCount(u, n) ==
    LET left == u.length - u.pos
    IN  IF n < 0 \/ n > left THEN left ELSE n

\* the bytes u.read(n) returns
ReadBytes(u, n) ==
    [i \in 1..ReadCount(u, n) |-> ContentByte(u.url, u.pos + i - 1)]

\* str(x) of a unicode string: its ASCII bytes; it raises UnicodeEncodeError
\* when a character is outside ASCII
IsAscii(s) == \A i \in 1..Len(s) : Ord(s[i]) < 128
Bytes(s) == [i \in 1..Len(s) |-> Ord(s[i])]

\* struct's 'Ns': truncated or padded with null bytes to N bytes
PackField(bytes, n) == [i \in 1..n |-> IF i <= Len(bytes) THEN bytes[i] ELSE 0]

\* lines 484-485
Id3v1(track) ==
    Bytes(<<"T", "A", "G">>)
        \o PackField(Bytes(track.title), ID3_FIELD)
        \o PackField(Bytes(track.artist), ID3_FIELD)
        \o PackField(Bytes(track.album), ID3_FIELD)
        \o PackField(Bytes(<<"0">>), ID3_YEAR_FIELD)
        \o PackField(Bytes(track.comment), ID3_FIELD)
        \o <<ID3_GENRE>>

\* line 478: the read takes the trailer branch
TakesTrailer(path, u, size, offset) ==
    Shape(path) = "artist_album_track" /\ u.length < offset + size

\* str() of the four text fields, then struct.pack (lines 484-485)
PackTrailer(track) ==
    IF track = NoneTrack THEN Err("TypeError")
    ELSE IF ~(IsAscii(track.title) /\ IsAscii(track.artist)
              /\ IsAscii(track.album) /\ IsAscii(track.comment))
    THEN Err("UnicodeEncodeError")
    ELSE Res("id3v1", Id3v1(track))

TrailerOf(a, filename) ==
    IF a.kind = "error" THEN a ELSE PackTrailer(Album_get_track(a.val, filename))

\* lines 479-485: the trailer of the track the path names, or the exception
ReadTrailer(path) == TrailerOf(ResolveAlbum(Parts(path)), Parts(path).track)

\* how many bytes the read asks the stream for (lines 486, 488)
ReadRequest(path, u, size, offset) ==
    IF TakesTrailer(path, u, size, offset) THEN size - ID3V1_TRAILER_SIZE ELSE size

-----------------------------------------------------------------------------
(* The calls made *)

\* the file handles the bridge passes in
Handles == {1, 2}

\* at most this many streams are opened in a run of Spec
MaxStreams == 2
\* at most this many reads are made of one stream in a run of Spec
MaxReads == 1
\* at most this many streams are opened in a run of SpecFS
FsMaxStreams == 1
\* the same limits in a run of SpecRead
ReadMaxStreams == 1
ReadMaxReads == 2

\* the windows <<size, offset>> read.  The streams are 2 to 4 bytes long:
\* windows below, at and across the end of the content, windows that end at
\* and beyond content length + 128, with sizes above and below 128.
ReadWindows ==
    { <<1, 0>>, <<2, 0>>, <<1, 2>>,
      <<ID3V1_TRAILER_SIZE + 2, 0>>, <<ID3V1_TRAILER_SIZE, 2>>,
      <<ID3V1_TRAILER_SIZE + 4, 0>>, <<1, ID3V1_TRAILER_SIZE + 2>> }

\* the windows read in Spec, where the table of open files is the subject
TableWindows == { <<2, 0>> }

configVars == <<lowercase, true_file_size, feed>>
libraryVars == <<artists, tracksById, playlists, scan>>

\* where rescan() stands: pc is its place, songs and pls the lists the two
\* api calls returned, i the loop index; before (history) is the library as
\* it was when the last rescan began, complete says that this rescan
\* returned, rescans counts the rescans begun
ScanIdle ==
    [pc |-> "idle", songs |-> <<>>, pls |-> <<>>, i |-> 0,
     before |-> EmptyLibrary, complete |-> TRUE, rescans |-> 0]

\* the state after GMusicFS.__init__ with the library of feed f scanned
Mounted(f) ==
    /\ feed = f
    /\ artists = Library(f).artists
    /\ tracksById = Library(f).tracksById
    /\ playlists = Library(f).playlists
    /\ scan = [ScanIdle EXCEPT !.before = Library(f)]
    /\ open_files = EmptyDict
    /\ streams = <<>>
    /\ last = NoCall
    /\ live = {}

\* what a call that has ended tells its caller about the handles: an open
\* that returned makes its handle live, a release ends that
Observed(handles, call) ==
    IF call.op = "open" /\ call.res.kind = "fh" THEN handles \cup {call.fh}
    ELSE IF call.op = "release" THEN handles \ {call.fh}
    ELSE handles

\* GMusicFS.getattr
Getattr(path) ==
    /\ \E r \in GetattrOutcomes(path) :
          last' = Call("getattr", path, 0, 0, 0, r, 0, 0)
    /\ UNCHANGED <<configVars, libraryVars, open_files, streams, live>>

\* GMusicFS.readdir
Readdir(path) ==
    /\ \E r \in ReaddirOutcomes(path) :
          last' = Call("readdir", path, 0, 0, 0, r, 0, 0)
    /\ UNCHANGED <<configVars, libraryVars, open_files, streams, live>>

\* line 462 when urlopen succeeds: the table entry of fh is (re)bound
OpenStore(table, fh, id) == (fh :> id) @@ table

\* lines 462-465, r being the url or the exception of lines 439-460
OpenWith(path, fh, r) ==
    \/ /\ r.kind = "error"
       /\ last' = Call("open", path, fh, 0, 0, r, 0, 0)
       /\ UNCHANGED <<open_files, streams>>
    \/ \* urlopen(None)
       /\ r.kind = "url" /\ r.val.kind = "none"
       /\ last' = Call("open", path, fh, 0, 0, Err("AttributeError"), 0, 0)
       /\ UNCHANGED <<open_files, streams>>
    \/ \* the request fails
       /\ r.kind = "url" /\ r.val.kind # "none"
       /\ last' = Call("open", path, fh, 0, 0, Err("URLError"), 0, 0)
       /\ UNCHANGED <<open_files, streams>>
    \/ /\ r.kind = "url" /\ r.val.kind # "none"
       /\ streams' = Append(streams, NewStream(r.val))
       /\ open_files' = OpenStore(open_files, fh, Len(streams) + 1)
       /\ last' = Call("open", path, fh, 0, 0, Res("fh", fh), Len(streams) + 1, 0)

\* GMusicFS.open, lines 436-465
Open(path, fh) ==
    /\ OpenWith(path, fh, OpenUrl(path))
    /\ live' = Observed(live, last')
    /\ UNCHANGED <<configVars, libraryVars>>

\* a variant of Closed: the stream is left as it is
Closed_StaysOpen(u) == u

\* u.close(), line 470.  Nothing refers to the response object afterwards:
\* only that it is closed is kept of it.
Closed(u) == [u EXCEPT !.closed = TRUE, !.pos = 0, !.bytes_read = 0, !.reads = 0]

\* a variant of ReleaseTable: the entry stays
ReleaseTable_KeepEntry(table, fh) == table

\* line 471: del self.__open_files[fh]
ReleaseTable(table, fh) == [h \in DOMAIN table \ {fh} |-> table[h]]

\* GMusicFS.release, lines 467-471
Release(path, fh) ==
    /\ \/ /\ fh \in DOMAIN open_files
          /\ streams' = [streams EXCEPT ![open_files[fh]] = Closed(@)]
          /\ open_files' = ReleaseTable(open_files, fh)
       \/ /\ fh \notin DOMAIN open_files
          /\ UNCHANGED <<open_files, streams>>
    /\ last' = Call("release", path, fh, 0, 0, Res("none", <<>>),
                    IF fh \in DOMAIN open_files THEN open_files[fh] ELSE 0, 0)
    /\ live' = Observed(live, last')
    /\ UNCHANGED <<configVars, libraryVars>>

\* lines 486-496, trailer being the packed trailer, nothing, or the
\* exception of lines 479-485
ReadSplice(path, size, offset, fh, id, u, trailer) ==
    \/ /\ trailer.kind = "error"
       /\ last' = Call("read", path, fh, size, offset, trailer, id, u.pos)
       /\ UNCHANGED streams
    \/ /\ trailer.kind # "error"
       /\ streams' = [streams EXCEPT ![id] =
             [@ EXCEPT !.pos = @ + ReadCount(u, ReadRequest(path, u, size, offset)),
                       !.bytes_read = @ + size,
                       !.reads = @ + 1]]
       /\ last' = Call("read", path, fh, size, offset,
                       Res("data", ReadBytes(u, ReadRequest(path, u, size, offset))
                                   \o trailer.val),
                       id, u.pos)

\* lines 477-496 on the stream u found under fh
ReadFrom(path, size, offset, fh, id, u) ==
    ReadSplice(path, size, offset, fh, id, u,
               IF TakesTrailer(path, u, size, offset)
               THEN ReadTrailer(path) ELSE Res("id3v1", <<>>))

\* GMusicFS.read, lines 473-496
Read(path, size, offset, fh) ==
    /\ \/ /\ fh \notin DOMAIN open_files
          /\ last' = Call("read", path, fh, size, offset, Err("RuntimeError"), 0, 0)
          /\ UNCHANGED streams
       \/ /\ fh \in DOMAIN open_files
          /\ ReadFrom(path, size, offset, fh, open_files[fh], streams[open_files[fh]])
    /\ UNCHANGED <<configVars, libraryVars, open_files, live>>

Init ==
    /\ lowercase = TRUE
    /\ true_file_size = FALSE
    /\ Mounted(MainFeed)

\* fh may be read once more when at most `most` reads are made of a stream
CanRead(fh, most) ==
    fh \in DOMAIN open_files => streams[open_files[fh]].reads < most

\* the paths of the calls on the table: a track, a cover image and a track
\* that does not exist (its open fails)
TablePaths == {pSong1(TRUE), pCover(TRUE), pNoTrack}

Next ==
    \/ \E path \in TablePaths, fh \in Handles :
          Len(streams) < MaxStreams /\ Open(path, fh)
    \/ \E path \in TablePaths, fh \in Handles, w \in TableWindows :
          CanRead(fh, MaxReads) /\ Read(path, w[1], w[2], fh)
    \/ \E path \in TablePaths, fh \in Handles : Release(path, fh)

\* the table of open files: open, read and release on two handles
Spec == Init /\ [][Next]_vars

NextRead ==
    \/ \E path \in StreamPaths :
          Len(streams) < ReadMaxStreams /\ Open(path, 1)
    \/ \E path \in StreamPaths, w \in ReadWindows :
          CanRead(1, ReadMaxReads) /\ Read(path, w[1], w[2], 1)
    \/ \E path \in StreamPaths : Release(path, 1)

\* one streaming session: what its reads return
SpecRead == Init /\ [][NextRead]_vars

\* the sizes of the windows a sequential reader asks for
SeqSizes == {1, 2, 3, ID3V1_TRAILER_SIZE - 2, ID3V1_TRAILER_SIZE - 1, ID3V1_TRAILER_SIZE,
             ID3V1_TRAILER_SIZE + 1, ID3V1_TRAILER_SIZE + 2}

SeqMaxStreams == 2
SeqMaxReads == 3

\* the next window of a sequential reader of the file under fh: it starts
\* where the one before ended (u.bytes_read, line 491) and ends within the
\* size of the file, the length of the stream + 128
ReadNext(path, size, fh) ==
    /\ fh \in DOMAIN open_files
    /\ streams[open_files[fh]].bytes_read + size
          <= streams[open_files[fh]].length + ID3V1_TRAILER_SIZE
    /\ Read(path, size, streams[open_files[fh]].bytes_read, fh)

NextSeq ==
    \/ /\ 1 \notin DOMAIN open_files
       /\ Len(streams) < SeqMaxStreams
       /\ Open(pSong1(TRUE), 1)
    \/ \E size \in SeqSizes :
          CanRead(1, SeqMaxReads) /\ ReadNext(pSong1(TRUE), size, 1)
    \/ 1 \in DOMAIN open_files /\ Release(pSong1(TRUE), 1)

\* an album track opened once and read from its start to its end in
\* consecutive windows
SpecSeq == Init /\ [][NextSeq]_vars

InitFS ==
    /\ lowercase \in BOOLEAN
    /\ true_file_size \in BOOLEAN
    /\ Mounted(MainFeed)

NextFS ==
    \/ \E path \in Paths : Getattr(path)
    \/ \E path \in Paths : Readdir(path)
    \/ \E path \in Paths : Len(streams) < FsMaxStreams /\ Open(path, 1)
    \/ \E path \in Paths : Release(path, 1)

\* the name space: getattr, readdir and open on every path
SpecFS == InitFS /\ [][NextFS]_vars

-----------------------------------------------------------------------------
(* MusicLibrary.rescan, a statement at a time, next to the lookups of the  *)
(* library that other callers make                                         *)

sBlank == <<" ">>

\* songs that differ in what they give as album artist, artist and album
ScanPool ==
    {Track(1, sSong, sBand, sSolo, sLP, 1, 2000, 0, <<>>),
     Track(2, sSong, sBand, <<>>, lower(sLP), 2, 2000, 0, <<>>),
     Track(3, sSong, <<>>, <<>>, sLP, 3, 2000, 0, <<>>),
     Track(4, sSong, sBand, sBlank, sLP, 4, 2000, 0, <<>>),
     Track(5, sSong, lower(sBand), <<>>, sLP, 5, 2000, 0, <<>>),
     Track(6, sSong, sBlank, <<>>, sLP, 6, 2000, 0, <<>>)}

\* the accounts: two songs, and a playlist of the second one
ScanFeed(a, b) ==
    [songs |-> <<a, b>>,
     playlists |-> << [name |-> sMix, tracks |-> <<EntryById(b.id)>>] >>]

ScanFeeds == {ScanFeed(p[1], p[2]) : p \in {q \in ScanPool \X ScanPool : q[1] # q[2]}}

\* what the account holds when the library is scanned again
RescanFeeds ==
    {f \in ScanFeeds : f.songs[1].id = 1 \/ (f.songs[1].id = 5 /\ f.songs[2].id = 2)}

MaxRescans == 1

LookupNames == {sBand, sSolo, Unknown}
LookupIds == {1, 2}

CurrentLibrary == [artists |-> artists, tracksById |-> tracksById, playlists |-> playlists]

\* rescan(), lines 224-227: the four containers are bound to empty ones
Rescan(f) ==
    /\ scan.pc = "idle"
    /\ feed' = f
    /\ artists' = EmptyDict
    /\ tracksById' = EmptyDict
    /\ playlists' = EmptyDict
    /\ scan' = [pc |-> "get_all_songs", songs |-> <<>>, pls |-> <<>>, i |-> 0,
                before |-> CurrentLibrary, complete |-> FALSE,
                rescans |-> scan.rescans + 1]
    /\ last' = Call("rescan", <<>>, 0, 0, 0, Res("running", <<>>), 0, 0)
    /\ UNCHANGED <<lowercase, true_file_size, open_files, streams, live>>

\* line 269: tracks = self.api.get_all_songs(); the call returns the songs
\* or raises, and no handler stands between it and rescan's caller
GetAllSongs ==
    /\ scan.pc = "get_all_songs"
    /\ \/ scan' = [scan EXCEPT !.pc = "songs", !.songs = feed.songs, !.i = 1]
       \/ scan' = [scan EXCEPT !.pc = "idle"]
    /\ UNCHANGED <<configVars, artists, tracksById, playlists, open_files,
                   streams, last, live>>

\* one turn of the loop over the songs, lines 270-298
AddSong ==
    /\ scan.pc = "songs"
    /\ scan.i <= Len(scan.songs)
    /\ artists' = AddTrack(artists, scan.songs[scan.i])
    /\ tracksById' = AddTrackId(tracksById, scan.songs[scan.i])
    /\ scan' = [scan EXCEPT !.i = @ + 1]
    /\ UNCHANGED <<configVars, playlists, open_files, streams, last, live>>

\* line 305: playlists = self.api.get_all_user_playlist_contents()
GetAllPlaylists ==
    /\ scan.pc = "songs"
    /\ scan.i > Len(scan.songs)
    /\ \/ scan' = [scan EXCEPT !.pc = "playlists", !.pls = feed.playlists, !.i = 1]
       \/ scan' = [scan EXCEPT !.pc = "idle"]
    /\ UNCHANGED <<configVars, artists, tracksById, playlists, open_files,
                   streams, last, live>>

\* one turn of the loop over the playlists, lines 306-308
AddPl ==
    /\ scan.pc = "playlists"
    /\ scan.i <= Len(scan.pls)
    /\ playlists' = AddPlaylist(playlists, tracksById, scan.pls[scan.i])
    /\ scan' = [scan EXCEPT !.i = @ + 1]
    /\ UNCHANGED <<configVars, artists, tracksById, open_files, streams, last, live>>

\* the loop is over and rescan() returns
RescanReturns ==
    /\ scan.pc = "playlists"
    /\ scan.i > Len(scan.pls)
    /\ scan' = [scan EXCEPT !.pc = "idle", !.complete = TRUE]
    /\ UNCHANGED <<configVars, artists, tracksById, playlists, open_files,
                   streams, last, live>>

\* MusicLibrary.get_artist(name), lines 314-316
get_artist(arts, name) ==
    IF lower(name) \in DOMAIN arts THEN Res("artist", arts[lower(name)])
    ELSE Res("none", <<>>)

\* MusicLibrary.get_playlist(name), lines 322-324
get_playlist(pls, name) ==
    IF lower(name) \in DOMAIN pls THEN Res("playlist", pls[lower(name)])
    ELSE Res("none", <<>>)

\* what a lookup gives in library lib: get_artists() and get_playlists()
\* give the values of the dict, get_track(id) takes the id in the place of
\* the handle
LookupIn(lib, op, name, id) ==
    IF op = "get_artist" THEN get_artist(lib.artists, name)
    ELSE IF op = "get_artists"
    THEN Res("artists", {lib.artists[k] : k \in DOMAIN lib.artists})
    ELSE IF op = "get_playlist" THEN get_playlist(lib.playlists, name)
    ELSE IF op = "get_playlists"
    THEN Res("playlists", {lib.playlists[k] : k \in DOMAIN lib.playlists})
    ELSE Res("track", get_track(lib.tracksById, id))

\* a lookup of the library, lines 310-328, at any place of a rescan
Lookup(op, name, id) ==
    /\ last' = Call(op, name, id, 0, 0, LookupIn(CurrentLibrary, op, name, id), 0, 0)
    /\ UNCHANGED <<configVars, libraryVars, open_files, streams, live>>

InitScan ==
    /\ lowercase = TRUE
    /\ true_file_size = FALSE
    /\ \E f \in ScanFeeds : Mounted(f)

NextScan ==
    \/ \E f \in RescanFeeds : scan.rescans < MaxRescans /\ Rescan(f)
    \/ GetAllSongs
    \/ AddSong
    \/ GetAllPlaylists
    \/ AddPl
    \/ RescanReturns
    \/ \E name \in LookupNames : Lookup("get_artist", name, 0)
    \/ \E op \in {"get_artists", "get_playlists"} : Lookup(op, <<>>, 0)
    \/ Lookup("get_playlist", sMix, 0)
    \/ \E id \in LookupIds : Lookup("get_track", <<>>, id)

SpecScan == InitScan /\ [][NextScan]_vars

-----------------------------------------------------------------------------
(* Album.get_year over albums of every mix of years *)

MaxYearTracks == 3

Years == {0, 1999, 2000, 2001}

\* one album whose tracks have the years ys, in this order
YearFeed(ys) ==
    [songs |-> [i \in 1..Len(ys) |-> Track(i, sSong, sBand, <<>>, sLP, i, ys[i], 0, <<>>)],
     playlists |-> <<>>]

YearFeeds ==
    {YearFeed(ys) : ys \in UNION {[1..n -> Years] : n \in 1..MaxYearTracks}}

\* album.get_year() of the album under key b of the artist under key a
GetYear(a, b) ==
    /\ \E y \in YearOutcomes(artists[a].albums[b]) :
          last' = Call("get_year", PathOf(<<a, b>>), 0, 0, 0, Res("year", y), 0, 0)
    /\ UNCHANGED <<configVars, libraryVars, open_files, streams, live>>

InitYear ==
    /\ lowercase = TRUE
    /\ true_file_size = FALSE
    /\ \E f \in YearFeeds : Mounted(f)

NextYear ==
    \/ \E a \in DOMAIN artists : \E b \in DOMAIN artists[a].albums : GetYear(a, b)
    \/ Readdir(PathOf(<<sArtists, dBand(TRUE)>>))

SpecYear == InitYear /\ [][NextYear]_vars

-----------------------------------------------------------------------------
(* Properties of the streaming sessions *)

Min(a, b) == IF a < b THEN a ELSE b

\* the last call was a read on an album-track path, made on a handle whose
\* stream is the one open() gives for that path
ReadOfAlbumTrack ==
    /\ last.op = "read"
    /\ last.u # 0
    /\ Shape(last.path) = "artist_album_track"
    /\ OpenUrl(last.path) = Res("url", streams[last.u].url)

\* ... and its window ends at or beyond content length + 128
FinalRead ==
    /\ ReadOfAlbumTrack
    /\ last.offset + last.size >= streams[last.u].length + ID3V1_TRAILER_SIZE

\* the song of the feed a stream delivers
SongOf(u) == CHOOSE t \in {feed.songs[i] : i \in 1..Len(feed.songs)} : StreamUrl(t) = u.url

\* the bytes of a text padded with zero bytes to 30
Field30(text) == [i \in 1..30 |-> IF i <= Len(text) THEN Ord(text[i]) ELSE 0]

\* block is the 128-byte trailer of song t: 'TAG', title, artist and album
\* in 30 bytes each, four bytes of year, the comment in 30 bytes, genre 12
IsTrailerOf(block, t) ==
    /\ Len(block) = 128
    /\ SubSeq(block, 1, 3) = <<84, 65, 71>>
    /\ SubSeq(block, 4, 33) = Field30(t.title)
    /\ SubSeq(block, 34, 63) = Field30(t.artist)
    /\ SubSeq(block, 64, 93) = Field30(t.album)
    /\ SubSeq(block, 94, 97) = <<48, 0, 0, 0>>
    /\ SubSeq(block, 98, 127) = Field30(t.comment)
    /\ block[128] = 12

\* buf starts with the n bytes of the stream that follow position pos0
IsContent(buf, url, pos0, n) ==
    /\ Len(buf) >= n
    /\ \A i \in 1..n : buf[i] = ContentByte(url, pos0 + i - 1)

\* C1 as claimed, with the end of the stream in mind: a read of 128 bytes
\* or more whose window reaches content length + 128 returns the size-128
\* bytes of the stream that come next (as many as the stream still has)
\* followed by the 128-byte trailer built from the track's title, artist,
\* album and comment in 30 bytes each, 'TAG' first and the genre byte 12
\* last.
C1_FinalRead ==
    (FinalRead /\ last.size >= ID3V1_TRAILER_SIZE) =>
        LET u == streams[last.u]
            n == Min(last.size - ID3V1_TRAILER_SIZE, u.length - last.pos0)
        IN  /\ last.res.kind = "data"
            /\ Len(last.res.val) = n + 128
            /\ IsContent(last.res.val, u.url, last.pos0, n)
            /\ IsTrailerOf(SubSeq(last.res.val, n + 1, n + 128), SongOf(u))

\* the last 128 bytes of buf are a trailer block
EndsWithTrailer(buf) ==
    /\ Len(buf) >= 128
    /\ SubSeq(buf, Len(buf) - 127, Len(buf) - 125) = <<84, 65, 71>>
    /\ buf[Len(buf)] = 12

\* buf is some bytes of the stream followed by a trailer block
Spliced(buf, url, pos0) ==
    /\ EndsWithTrailer(buf)
    /\ IsContent(buf, url, pos0, Len(buf) - 128)

\* the file name that ends path is the one the listings give song t, in
\* its album or at some place of a playlist
NamesSong(path, t) ==
    LET g == Segs(path)
    IN  \/ Shape(path) = "artist_album_track" /\ g[4] = AlbumTrackFilename(t)
        \/ /\ Shape(path) = "playlist_track"
           /\ \E k \in 1..Len(feed.songs) : g[3] = PlaylistTrackFilename(k, t)

\* the last call was a read that returned, of a path and on a stream that
\* belong together: the audio of the song the path names, or the art for a
\* cover path
ReadOfOwnStream ==
    /\ last.op = "read"
    /\ last.res.kind = "data"
    /\ LET u == streams[last.u]
       IN  \/ u.url.kind = "art" /\ Shape(last.path) = "artist_album_image"
           \/ /\ u.url.kind = "stream"
              /\ \E i \in 1..Len(feed.songs) :
                    /\ StreamUrl(feed.songs[i]) = u.url
                    /\ NamesSong(last.path, feed.songs[i])

\* C2 as claimed: a read that returns splices the trailer in exactly when
\* the path is a track path (an album track or a playlist track) and
\* offset+size >= content length (a read of fewer than 128 bytes has no room
\* for it and is left out); every other read returns what the stream yields
\* for size bytes, with no trailer.
C2_SplicedExactlyWhen ==
    ReadOfOwnStream =>
        LET u == streams[last.u]
            left == u.length - last.pos0
        IN  IF /\ Shape(last.path) \in {"artist_album_track", "playlist_track"}
               /\ last.offset + last.size >= u.length
            THEN last.size >= ID3V1_TRAILER_SIZE
                    => Spliced(last.res.val, u.url, last.pos0)
            ELSE /\ Len(last.res.val) = Min(last.size, left)
                 /\ IsContent(last.res.val, u.url, last.pos0, Min(last.size, left))

-----------------------------------------------------------------------------
(* Properties of the table of open files *)

\* C3: release of a handle that is in the table closes its stream and
\* removes the handle, and leaves every other handle's entry and stream as
\* they were; release of a handle that is not in the table raises nothing
\* and changes neither the table nor a stream.
C3_Release ==
    [][ last'.op = "release" =>
          /\ last'.res.kind # "error"
          /\ last'.fh \in DOMAIN open_files =>
                /\ streams'[open_files[last'.fh]].closed
                /\ last'.fh \notin DOMAIN open_files'
                /\ \A h \in DOMAIN open_files \ {last'.fh} :
                      /\ h \in DOMAIN open_files'
                      /\ open_files'[h] = open_files[h]
                      /\ streams'[open_files[h]] = streams[open_files[h]]
          /\ last'.fh \notin DOMAIN open_files =>
                /\ open_files' = open_files
                /\ streams' = streams ]_vars

\* a handle was released while another one stays open
C3_Witness ==
    /\ last.op = "release"
    /\ last.u # 0
    /\ streams[last.u].closed
    /\ last.fh \notin DOMAIN open_files
    /\ \E h \in DOMAIN open_files : ~streams[open_files[h]].closed

\* C4: a read returns data only on a handle that was opened with success and
\* not released since; on any other handle (never opened, open failed,
\* released) it raises RuntimeError, reads from no stream and leaves the
\* table as it was.
C4_ReadNeedsOpen ==
    [][ last'.op = "read" =>
          /\ last'.res.kind = "data" => last'.fh \in live
          /\ last'.fh \notin live =>
                /\ last'.res = Err("RuntimeError")
                /\ streams' = streams
                /\ open_files' = open_files ]_vars

\* a read was refused on a handle after the only stream opened was released
C4_Witness ==
    /\ last.op = "read"
    /\ last.res = Err("RuntimeError")
    /\ Len(streams) = 1
    /\ streams[1].closed
    /\ live = {}

-----------------------------------------------------------------------------
(* Properties of the path operations *)

\* the paths that name an artist, an album, a playlist or a track that the
\* catalog does not have, or that match no pattern
MissingPaths == UnlistedPaths \ {pNoCover}

\* C6 as claimed: getattr, readdir and open of a path that matches no
\* pattern, or that names an artist, album, playlist or track the catalog
\* does not have, signal ENOENT and nothing else.
C6_NotFound ==
    (last.op \in {"getattr", "readdir", "open"} /\ last.path \in MissingPaths)
        => last.res = Err("ENOENT")

\* C7 as claimed: for every track T of every album, a listing of the album's
\* directory has T's file name, and opening the path made of the listed
\* artist directory, the listed album directory and that file name opens
\* the stream of T and of no other track.
C7_RoundTrip ==
    \A a \in DOMAIN artists : \A b \in DOMAIN artists[a].albums :
        LET album == artists[a].albums[b]
        IN  \A y \in YearOutcomes(album) : \A i \in 1..Len(album.tracks) :
                LET T == album.tracks[i]
                    dir == <<sArtists, transform(artists[a].dirname),
                             AlbumDirName(album, y)>>
                IN  /\ (/\ last.op = "readdir"
                        /\ last.path = PathOf(dir)
                        /\ last.res.kind = "list")
                       => \E j \in 1..Len(last.res.val) :
                             last.res.val[j] = AlbumTrackFilename(T)
                    /\ (/\ last.op = "open"
                        /\ last.path = PathOf(Append(dir, AlbumTrackFilename(T)))
                        /\ last.res.kind = "fh")
                       => streams[last.u].url = StreamUrl(T)

\* C8 as claimed: the listing of a playlist with tracks T_1..T_n has n
\* track entries in that order, the k-th numbered k in three digits, and
\* getattr and open of the k-th listed file name resolve to T_k (an open
\* may still fail on the network).
C8_PlaylistRoundTrip ==
    \A p \in DOMAIN playlists :
        LET ts == playlists[p].tracks
            dir == <<sPlaylists, transform(playlists[p].dirname)>>
        IN  /\ (/\ last.op = "readdir"
                /\ last.path = PathOf(dir)
                /\ last.res.kind = "list")
               => last.res.val =
                    DotDots \o [k \in 1..Len(ts) |-> PlaylistTrackFilename(k, ts[k])]
            /\ \A k \in 1..Len(ts) :
                  (/\ last.op \in {"getattr", "open"}
                   /\ last.path = PathOf(Append(dir, PlaylistTrackFilename(k, ts[k]))))
                  => /\ last.res.kind \in {"stat", "fh"} \/ last.res = Err("URLError")
                     /\ last.res.kind = "fh" => streams[last.u].url = StreamUrl(ts[k])

-----------------------------------------------------------------------------
(* Properties of the library *)

LookupOps == {"get_artist", "get_artists", "get_playlist", "get_playlists", "get_track"}

\* C5 as claimed: a lookup made while the library is scanned again gives
\* what it gives in the complete library from before the rescan or in the
\* complete library of the rescan's feed, never something in between.
C5_Atomic ==
    last.op \in LookupOps =>
        last.res \in {LookupIn(scan.before, last.op, last.path, last.fh),
                      LookupIn(Library(feed), last.op, last.path, last.fh)}

\* the years of an album's tracks with the highest count, the tracks
\* without year (0) left out
CountOf(ts, y) == Cardinality({i \in 1..Len(ts) : ts[i].year = y})

TopYears(ts) ==
    LET ys == {ts[i].year : i \in 1..Len(ts)} \ {0}
    IN  {y \in ys : \A z \in ys : CountOf(ts, y) >= CountOf(ts, z)}

FirstAt(ts, y) == CHOOSE i \in 1..Len(ts) : ts[i].year = y /\ \A j \in 1..(i - 1) : ts[j].year # y

\* C9 as claimed: get_year gives the year with the highest count; of
\* several with the highest count the one that comes first among the
\* tracks; 0 when no track has a year.
C9_EarliestInserted ==
    \A a \in DOMAIN artists : \A b \in DOMAIN artists[a].albums :
        (last.op = "get_year" /\ last.path = PathOf(<<a, b>>)) =>
            LET ts == artists[a].albums[b].tracks
                top == TopYears(ts)
            IN  IF top = {} THEN last.res.val = 0
                ELSE /\ last.res.val \in top
                     /\ \A z \in top : FirstAt(ts, last.res.val) <= FirstAt(ts, z)

\* C9 amended: get_year gives a year with the highest count among the
\* tracks that have a year - any one of them when several share the
\* highest count - and 0 when no track has a year.
C9_MostFrequent ==
    \A a \in DOMAIN artists : \A b \in DOMAIN artists[a].albums :
        (last.op = "get_year" /\ last.path = PathOf(<<a, b>>)) =>
            LET top == TopYears(artists[a].albums[b].tracks)
            IN  IF top = {} THEN last.res.val = 0 ELSE last.res.val \in top

\* get_year gave the one most frequent of several years
C9_Witness ==
    /\ last.op = "get_year"
    /\ \E a \in DOMAIN artists : \E b \in DOMAIN artists[a].albums :
          LET ts == artists[a].albums[b].tracks
          IN  /\ last.path = PathOf(<<a, b>>)
              /\ Cardinality({ts[i].year : i \in 1..Len(ts)} \ {0}) >= 2
              /\ TopYears(ts) = {last.res.val}

\* the last rescan returned: the library is aggregated from feed
Aggregated == scan.pc = "idle" /\ scan.complete

\* the places of the library that hold track T: artist key, album key, index
Homes(T) ==
    UNION {UNION {{<<a, b, i>> : i \in {j \in 1..Len(artists[a].albums[b].tracks) :
                                          artists[a].albums[b].tracks[j] = T}} :
                  b \in DOMAIN artists[a].albums} :
           a \in DOMAIN artists}

\* T is in exactly one album, and that album is under the artist key
FiledUnder(T, key) ==
    /\ Cardinality(Homes(T)) = 1
    /\ \A h \in Homes(T) : h[1] = key

\* two tracks filed under the same artist with album titles equal up to
\* case are tracks of one album
ShareAlbums ==
    \A i, j \in 1..Len(feed.songs) :
        \A h \in Homes(feed.songs[i]), g \in Homes(feed.songs[j]) :
            (h[1] = g[1] /\ lower(feed.songs[i].album) = lower(feed.songs[j].album))
                => h[2] = g[2]

\* C10 as claimed: a track with a non-empty album artist is in exactly one
\* album, under the artist keyed by its lower-cased slash-escaped album
\* artist; with an empty album artist it is filed under its artist, and
\* under 'Unknown' when both are empty; tracks of the same artist and of
\* the same album title up to case share one album.
C10_NonEmpty ==
    Aggregated =>
        /\ \A i \in 1..Len(feed.songs) :
              LET T == feed.songs[i]
              IN  FiledUnder(T, lower(formatNames(
                      IF T.albumArtist # <<>> THEN T.albumArtist
                      ELSE IF T.artist # <<>> THEN T.artist
                      ELSE Unknown)))
        /\ ShareAlbums

\* nothing but spaces
Blank(x) == \A i \in 1..Len(x) : x[i] = " "

\* C10 amended: a track whose album artist is not blank (empty or only
\* white space) is in exactly one album, under the artist keyed by its
\* lower-cased slash-escaped album artist; with a blank album artist it is
\* filed under its artist, and under 'Unknown' when both are blank; tracks
\* of the same artist and of the same album title up to case share one
\* album.
C10_NonBlank ==
    Aggregated =>
        /\ \A i \in 1..Len(feed.songs) :
              LET T == feed.songs[i]
              IN  FiledUnder(T, lower(formatNames(
                      IF ~Blank(T.albumArtist) THEN T.albumArtist
                      ELSE IF ~Blank(T.artist) THEN T.artist
                      ELSE Unknown)))
        /\ ShareAlbums

\* a rescan has filed a track under its album artist, not its artist, and
\* a track with a blank album artist under its artist
C10_Witness ==
    /\ Aggregated
    /\ scan.rescans = 1
    /\ \E i, j \in 1..Len(feed.songs) :
          /\ ~Blank(feed.songs[i].albumArtist)
          /\ lower(feed.songs[i].albumArtist) # lower(feed.songs[i].artist)
          /\ FiledUnder(feed.songs[i], lower(feed.songs[i].albumArtist))
          /\ feed.songs[j].albumArtist = sBlank
          /\ FiledUnder(feed.songs[j], lower(feed.songs[j].artist))

-----------------------------------------------------------------------------
(* Properties of the attributes, the album listings and the open streams *)

\* the paths of the track files that the listings give
TrackFilePaths ==
    (ListedFiles(TRUE) \cup ListedFiles(FALSE)) \ {pCover(TRUE), pCover(FALSE)}

\* C11 as claimed: getattr of an existing track file, of an album or of a
\* playlist, returns the attributes of a read-only regular file whose size
\* is the track's estimated size or, once probed, the content length of
\* its stream + 128.
C11_TrackStat ==
    (last.op = "getattr" /\ last.path \in TrackFilePaths) =>
        /\ last.res.kind = "stat"
        /\ last.res.val.st_mode = "S_IFREG|0444"
        /\ \A i \in 1..Len(feed.songs) :
              NamesSong(last.path, feed.songs[i]) =>
                  last.res.val.st_size \in
                      {feed.songs[i].estimatedSize,
                       ContentLength(StreamUrl(feed.songs[i])) + ID3V1_TRAILER_SIZE}

\* C12 as claimed: a listing of an album directory is '.', '..', then one
\* entry for each track of the album in non-decreasing order of the track
\* numbers, then 'cover.jpg' if and only if the album has a cover URL.
C12_ByTrackNumber ==
    \A a \in DOMAIN artists : \A b \in DOMAIN artists[a].albums :
        LET album == artists[a].albums[b]
            ts == album.tracks
        IN  \A y \in YearOutcomes(album) :
                (/\ last.op = "readdir"
                 /\ last.path = PathOf(<<sArtists, transform(artists[a].dirname),
                                         AlbumDirName(album, y)>>)
                 /\ last.res.kind = "list")
                => \E order \in Perms(1..Len(ts)) :
                      /\ \A i, j \in 1..Len(ts) :
                            i < j => ts[order[i]].trackNumber <= ts[order[j]].trackNumber
                      /\ last.res.val =
                            DotDots
                            \o [i \in 1..Len(ts) |-> AlbumTrackFilename(ts[order[i]])]
                            \o (IF CoverUrl(album).kind # "none"
                                THEN <<sCoverJpg>> ELSE <<>>)

\* C14 as claimed: every stream that was opened and is not closed is the
\* stream the table of open files holds under some handle.
C14_NoLeak ==
    \A i \in 1..Len(streams) :
        ~streams[i].closed => \E h \in DOMAIN open_files : open_files[h] = i

\* the bytes of the file of track t: its stream, then its trailer
WholeFile(t) ==
    [i \in 1..ContentLength(StreamUrl(t)) |-> ContentByte(StreamUrl(t), i - 1)]
        \o Id3v1(t)

\* C13 as claimed: each read of a sequential reader of an album track never
\* asks the stream for a negative count of bytes and returns exactly the
\* `size` bytes of its window of the file, the audio followed by one
\* 128-byte trailer.
C13_Sequential ==
    (last.op = "read" /\ last.u # 0) =>
        /\ ReadRequest(last.path, streams[last.u], last.size, last.offset) >= 0
        /\ last.res.kind = "data"
        /\ Len(last.res.val) = last.size
        /\ last.res.val = SubSeq(WholeFile(SongOf(streams[last.u])),
                                 last.offset + 1, last.offset + last.size)

=============================================================================
